---- MODULE Spec2Model ----
(***************************************************************************)
(* Model of WalkrX/walkrclient.py: the WalkrClient HTTP client.  A client  *)
(* holds the session fields given at construction; every endpoint wrapper  *)
(* builds a URL and a payload dict and hands them to request / fetch,      *)
(* which call _make_requests: it writes the five session fields into the   *)
(* payload dict, sends one HTTP request and turns the response into a      *)
(* return value or an exception.                                           *)
(*                                                                         *)
(* Spec     : calls run one after another, each call is one action.        *)
(* SpecConc : two threads run calls on the same client, one statement of   *)
(*            the wrapper / of _make_requests per step.                    *)
(***************************************************************************)
EXTENDS Integers, Sequences, FiniteSets

VARIABLES client, call, passed, payloadAfter, wire, resp, outcome, ncalls, nsent,
          cpc, ccall, cref, curl, cmethod, cheap, cwire, cresp, cout

seqvars == <<call, passed, payloadAfter, wire, resp, outcome, ncalls, nsent>>
concvars == <<cpc, ccall, cref, curl, cmethod, cheap, cwire, cresp, cout>>
vars == <<client, call, passed, payloadAfter, wire, resp, outcome, ncalls, nsent,
          cpc, ccall, cref, curl, cmethod, cheap, cwire, cresp, cout>>

\* ---------------------------------------------------------------- bounds
\* number of calls made on one client in a sequential run
MaxCalls == 2

\* ------------------------------------------------------------- constants
BASE_URL == "https://api.walkrconnect.com/api/v1"

ReservedKeys == {"auth_token", "client_version", "platform", "timezone", "locale"}

\* ------------------------------------------------------ python values
\* a dict is a function from its keys to its values
EmptyDict == [k \in {} |-> 0]

\* the dict {k: v}
k :> v == [x \in {k} |-> v]

\* the dict holding the items of f and of g (the keys of a dict display are
\* distinct here)
f @@ g == [x \in (DOMAIN f) \cup (DOMAIN g) |-> IF x \in DOMAIN f THEN f[x] ELSE g[x]]

\* d[k] = v
SetItem(d, k, v) == [x \in (DOMAIN d) \cup {k} |-> IF x = k THEN v ELSE d[x]]

\* an optional dict: None, or a reference to a dict
None == [some |-> FALSE, dict |-> EmptyDict]
Some(d) == [some |-> TRUE, dict |-> d]

\* a keyword argument of a call, or the default of the signature when omitted
Arg(args, name, default) == IF name \in DOMAIN args THEN args[name] ELSE default

\* ------------------------------------------------------ JSON values
\* decoded JSON values, tagged so that values of different types compare
JNull == [type |-> "null", n |-> 0, elems |-> <<>>, members |-> EmptyDict]
JNum(i) == [type |-> "number", n |-> i, elems |-> <<>>, members |-> EmptyDict]
JArray(s) == [type |-> "array", n |-> 0, elems |-> s, members |-> EmptyDict]
JObject(m) == [type |-> "object", n |-> 0, elems |-> <<>>, members |-> m]

\* the token that is a number literal -> its value
NumTokens == {"0", "1", "2"}
NumOf(t) == CASE t = "0" -> 0 [] t = "1" -> 1 [] OTHER -> 2
KeyTokens == {"\"x\"", "\"y\""}
KeyOf(t) == IF t = "\"x\"" THEN "x" ELSE "y"

ParseFail == [ok |-> FALSE, value |-> JNull, rest |-> <<>>]
ParseOk(v, rest) == [ok |-> TRUE, value |-> v, rest |-> rest]

RECURSIVE ParseValue(_)
RECURSIVE ParseElems(_, _)
RECURSIVE ParseMembers(_, _)

\* one JSON value at the head of the token sequence
ParseValue(toks) ==
    IF toks = <<>> THEN ParseFail
    ELSE LET t == Head(toks)
             r == Tail(toks)
         IN  CASE t \in NumTokens -> ParseOk(JNum(NumOf(t)), r)
               [] t = "null" -> ParseOk(JNull, r)
               [] t = "[" ->
                    IF r # <<>> /\ Head(r) = "]" THEN ParseOk(JArray(<<>>), Tail(r))
                    ELSE ParseElems(r, <<>>)
               [] t = "{" ->
                    IF r # <<>> /\ Head(r) = "}" THEN ParseOk(JObject(EmptyDict), Tail(r))
                    ELSE ParseMembers(r, EmptyDict)
               [] OTHER -> ParseFail

\* value ("," value)* "]"
ParseElems(toks, acc) ==
    LET p == ParseValue(toks)
    IN  IF ~p.ok \/ p.rest = <<>> THEN ParseFail
        ELSE LET acc2 == Append(acc, p.value)
             IN  CASE Head(p.rest) = "]" -> ParseOk(JArray(acc2), Tail(p.rest))
                   [] Head(p.rest) = "," -> ParseElems(Tail(p.rest), acc2)
                   [] OTHER -> ParseFail

\* key ":" value ("," key ":" value)* "}" ; a repeated key keeps the last value
ParseMembers(toks, acc) ==
    IF Len(toks) < 2 \/ Head(toks) \notin KeyTokens \/ toks[2] # ":" THEN ParseFail
    ELSE LET p == ParseValue(Tail(Tail(toks)))
         IN  IF ~p.ok \/ p.rest = <<>> THEN ParseFail
             ELSE LET acc2 == SetItem(acc, KeyOf(Head(toks)), p.value)
                  IN  CASE Head(p.rest) = "}" -> ParseOk(JObject(acc2), Tail(p.rest))
                        [] Head(p.rest) = "," -> ParseMembers(Tail(p.rest), acc2)
                        [] OTHER -> ParseFail

\* result.json(): the whole body is one JSON value, or decoding fails
JsonDecode(text) ==
    LET p == ParseValue(text)
    IN  IF p.ok /\ p.rest = <<>> THEN [ok |-> TRUE, value |-> p.value]
        ELSE [ok |-> FALSE, value |-> JNull]

\* ------------------------------------------------------ outcomes of a call
Return(v) == [kind |-> "return", status_code |-> 0, value |-> v]
Raise(kind) == [kind |-> kind, status_code |-> 0, value |-> JNull]
\* APIError.__init__ keeps the status code
APIError(status_code) == [kind |-> "APIError", status_code |-> status_code, value |-> JNull]
NoOutcome == [kind |-> "none", status_code |-> 0, value |-> JNull]

\* ------------------------------------------------------ requests, responses
\* the headers every request carries (set once in __init__)
Headers == [Content_Type |-> "application/json",
            Accept_Encoding |-> "br, gzip, deflate",
            User_Agent |-> "Walkr/4.9.1 (iPhone; iOS 12.1.2; Scale/2.00)",
            Connection |-> "keep-alive",
            Host |-> "api.walkrconnect.com"]

\* WalkrClient.__init__: args holds the keyword arguments given
WalkrClient(auth_token, client_version, platform, args) ==
    [headers |-> Headers,
     auth_token |-> auth_token,
     version |-> client_version,
     platform |-> platform,
     tz |-> Arg(args, "timezone", 8),
     locale |-> Arg(args, "locale", "en")]

NoResponse == [received |-> FALSE, status_code |-> 0, text |-> <<>>]
Response(status_code, text) == [received |-> TRUE, status_code |-> status_code, text |-> text]

\* the mutant writes the session fields only where the caller left them out
InjectSessionKeepCaller(self, payload) ==
    LET Keep(d, k, v) == IF k \in DOMAIN d THEN d ELSE SetItem(d, k, v)
    IN  Keep(Keep(Keep(Keep(Keep(payload, "auth_token", self.auth_token),
            "client_version", self.version), "platform", self.platform),
            "timezone", self.tz), "locale", self.locale)

\* lines 52-56: the five item assignments on the payload dict
InjectSession(self, payload) ==
    SetItem(SetItem(SetItem(SetItem(SetItem(payload,
        "auth_token", self.auth_token),
        "client_version", self.version),
        "platform", self.platform),
        "timezone", self.tz),
        "locale", self.locale)

\* the mutant sends every payload as the JSON body
SendAlwaysBody(self, url, payload, method) ==
    IF method \in {"POST", "GET"}
    THEN <<[method |-> method, url |-> url, params |-> None, json |-> Some(payload),
            headers |-> self.headers]>>
    ELSE <<>>

\* lines 58-63: session.post(json=payload) / session.get(params=payload);
\* the requests put on the wire (none for any other method)
Send(self, url, payload, method) ==
    CASE method = "POST" ->
           <<[method |-> "POST", url |-> url, params |-> None, json |-> Some(payload),
              headers |-> self.headers]>>
      [] method = "GET" ->
           <<[method |-> "GET", url |-> url, params |-> Some(payload), json |-> None,
              headers |-> self.headers]>>
      [] OTHER -> <<>>

\* the mutant accepts every 2xx status
HandleResultAny2xx(result) ==
    IF result.status_code >= 200 /\ result.status_code < 300
    THEN IF JsonDecode(result.text).ok THEN Return(JsonDecode(result.text).value)
         ELSE Raise("JSONDecodeError")
    ELSE APIError(result.status_code)

\* the mutant loses the decoded body
HandleResultNoValue(result) ==
    IF result.status_code = 200
    THEN IF JsonDecode(result.text).ok THEN Return(JNull)
         ELSE Raise("JSONDecodeError")
    ELSE APIError(result.status_code)

\* lines 64-70: 200 -> result.json(), which raises on a body that is not JSON;
\* any other status -> APIError(status_code)
HandleResult(result) ==
    IF result.status_code = 200
    THEN IF JsonDecode(result.text).ok THEN Return(JsonDecode(result.text).value)
         ELSE Raise("JSONDecodeError")
    ELSE APIError(result.status_code)

\* what a call did: the client after it, the payload argument the dispatcher
\* received, that dict after the call, the requests sent, the response read,
\* and how the call ended
Effect(self, passedArg, dict, sent, response, out) ==
    [self |-> self, passed |-> passedArg, dict |-> dict, wire |-> sent,
     resp |-> response, outcome |-> out]

\* the mutant stores the caller's auth_token into the client
make_requests_writes_self(self, url, payload, method, result) ==
    IF ~payload.some
    THEN Effect(self, payload, payload, <<>>, NoResponse, Raise("TypeError"))
    ELSE LET self2 == IF "auth_token" \in DOMAIN payload.dict
                      THEN [self EXCEPT !.auth_token = payload.dict["auth_token"]]
                      ELSE self
             merged == InjectSession(self2, payload.dict)
             sent == Send(self2, url, merged, method)
         IN  IF sent = <<>>
             THEN Effect(self2, payload, Some(merged), sent, NoResponse, Return(JNull))
             ELSE Effect(self2, payload, Some(merged), sent, result, HandleResult(result))

\* WalkrClient._make_requests (lines 51-70).  payload None: the first item
\* assignment raises TypeError.  A method other than POST and GET: returns
\* None without sending.
make_requests(self, url, payload, method, result) ==
    IF ~payload.some
    THEN Effect(self, payload, payload, <<>>, NoResponse, Raise("TypeError"))
    ELSE LET merged == InjectSession(self, payload.dict)
             sent == Send(self, url, merged, method)
         IN  IF sent = <<>>
             THEN Effect(self, payload, Some(merged), sent, NoResponse, Return(JNull))
             ELSE Effect(self, payload, Some(merged), sent, result, HandleResult(result))

\* a call that python rejects before the method body runs
ArityError(self) == Effect(self, None, None, <<>>, NoResponse, Raise("TypeError"))

\* WalkrClient.request(url, payload=None): a is the positional arguments after self
request(self, a, result) ==
    IF Len(a) < 1 \/ Len(a) > 2 THEN ArityError(self)
    ELSE make_requests(self, a[1], IF Len(a) = 2 THEN a[2] ELSE None, "POST", result)

\* WalkrClient.fetch(url, payload=None)
fetch(self, a, result) ==
    IF Len(a) < 1 \/ Len(a) > 2 THEN ArityError(self)
    ELSE make_requests(self, a[1], IF Len(a) = 2 THEN a[2] ELSE None, "GET", result)

\* ------------------------------------------------------ endpoint wrappers
\* Every wrapper takes the client, the keyword arguments of the call (a dict
\* holding the arguments the caller gave) and the server's response.

Digit(d) ==
    CASE d = 0 -> "0" [] d = 1 -> "1" [] d = 2 -> "2" [] d = 3 -> "3" [] d = 4 -> "4"
      [] d = 5 -> "5" [] d = 6 -> "6" [] d = 7 -> "7" [] d = 8 -> "8" [] OTHER -> "9"

\* the decimal text str.format puts in the URL for a non-negative integer id
RECURSIVE Fmt(_)
Fmt(id) == IF id < 10 THEN Digit(id) ELSE Fmt(id \div 10) \o Digit(id % 10)

fetch_now(self, args, result) ==
    LET url == BASE_URL \o "/now"
        payload == "system_time" :> args["system_time"]
    IN  fetch(self, <<url, Some(payload)>>, result)

fetch_shops(self, args, result) ==
    fetch(self, <<BASE_URL \o "/shops">>, result)

fetch_epics(self, args, result) ==
    fetch(self, <<BASE_URL \o "/epics">>, result)

update_games(self, args, result) ==
    LET url == BASE_URL \o "/games"
        payload == "data" :> args["data"]
    IN  request(self, <<url, Some(payload)>>, result)

fetch_friends_count(self, args, result) ==
    fetch(self, <<BASE_URL \o "/users/friends_count">>, result)

fetch_current_fleet(self, args, result) ==
    fetch(self, <<BASE_URL \o "/fleets/current">>, result)

\* lines 132-136: the URL and the payload dict of fetch_fleet_comments
fetch_fleet_comments_locals(args) ==
    [url |-> BASE_URL \o "/fleets/" \o Fmt(args["fleet_id"]) \o "/comments",
     payload |-> ("offset" :> Arg(args, "offset", 0)) @@ ("limit" :> Arg(args, "limit", 30))]

fetch_fleet_comments(self, args, result) ==
    LET l == fetch_fleet_comments_locals(args)
    IN  fetch(self, <<l.url, Some(l.payload)>>, result)

fetch_bridge(self, args, result) ==
    fetch(self, <<BASE_URL \o "/pilots">>, result)

check_energy(self, args, result) ==
    request(self, <<BASE_URL \o "/pilots/" \o Fmt(args["pilot_id"]) \o "/check">>, result)

fetch_friends(self, args, result) ==
    LET url == BASE_URL \o "/users/friends"
        payload == ("order_by" :> Arg(args, "order_by", "population"))
                   @@ ("offset" :> Arg(args, "offset", 0))
                   @@ ("limit" :> Arg(args, "limit", 100))
    IN  fetch(self, <<url, Some(payload)>>, result)

fetch_friend_invitations(self, args, result) ==
    fetch(self, <<BASE_URL \o "/users/friend_invitations">>, result)

fetch_new_friends_count(self, args, result) ==
    fetch(self, <<BASE_URL \o "/users/new_friends_count">>, result)

fetch_booster(self, args, result) ==
    fetch(self, <<BASE_URL \o "/boosts">>, result)

start_booster(self, args, result) ==
    request(self, <<BASE_URL \o "/boosts">>, result)

\* line 213 passes three positional arguments to fetch
update_booster_information(self, args, result) ==
    LET url == BASE_URL \o "/boosts/" \o Fmt(args["booster_id"])
        payload == "data" :> args["data"]
    IN  fetch(self, <<url, Some(payload), "PUT">>, result)

convert_energy(self, args, result) ==
    LET url == BASE_URL \o "/pilots/convert"
        payload == "converted_energy" :> args["converted_energy"]
    IN  request(self, <<url, Some(payload)>>, result)

fetch_pedometer_settings(self, args, result) ==
    LET url == BASE_URL \o "/pedometer_settings"
        payload == ("brand" :> args["brand"])
                   @@ ("device_model" :> args["device_model"])
                   @@ ("os_version" :> args["os_version"])
    IN  fetch(self, <<url, Some(payload)>>, result)

check_reward_for_epic(self, args, result) ==
    request(self, <<BASE_URL \o "/fleets/" \o Fmt(args["fleet_id"])
                    \o "/check_reward_for_epic">>, result)

\* lines 259-266: the URL and the payload dict of donate_energy_for_epic
donate_energy_for_epic_locals(args) ==
    [url |-> BASE_URL \o "/fleets/" \o Fmt(args["fleet_id"]) \o "/donate",
     payload |-> ("event_status" :> "path")
                 @@ ("event_type" :> "traveling")
                 @@ ("event_id" :> args["event_id"])
                 @@ ("hitpoints" :> args["hitpoints"])
                 @@ ("energy" :> args["energy"])]

donate_energy_for_epic(self, args, result) ==
    LET l == donate_energy_for_epic_locals(args)
    IN  request(self, <<l.url, Some(l.payload)>>, result)

\* the mutant puts value_c where value_b belongs and the reverse
donate_resources_for_epic_locals_swapped(args) ==
    [url |-> BASE_URL \o "/fleets/" \o Fmt(args["fleet_id"]) \o "/donate",
     payload |-> ("event_status" :> "event")
                 @@ ("event_type" :> "currency")
                 @@ ("event_id" :> args["event_id"])
                 @@ ("hitpoints" :> args["hitpoints"])
                 @@ ("value_a" :> Arg(args, "value_a", 0))
                 @@ ("value_b" :> Arg(args, "value_c", 0))
                 @@ ("value_c" :> Arg(args, "value_b", 0))]

\* lines 280-289: the URL and the payload dict of donate_resources_for_epic
donate_resources_for_epic_locals(args) ==
    [url |-> BASE_URL \o "/fleets/" \o Fmt(args["fleet_id"]) \o "/donate",
     payload |-> ("event_status" :> "event")
                 @@ ("event_type" :> "currency")
                 @@ ("event_id" :> args["event_id"])
                 @@ ("hitpoints" :> args["hitpoints"])
                 @@ ("value_a" :> Arg(args, "value_a", 0))
                 @@ ("value_b" :> Arg(args, "value_b", 0))
                 @@ ("value_c" :> Arg(args, "value_c", 0))]

donate_resources_for_epic(self, args, result) ==
    LET l == donate_resources_for_epic_locals(args)
    IN  request(self, <<l.url, Some(l.payload)>>, result)

fetch_invite_list(self, args, result) ==
    LET url == BASE_URL \o "/fleets/invite_list"
        payload == ("epic_id" :> args["epic_id"])
                   @@ ("offset" :> Arg(args, "offset", 0))
                   @@ ("limit" :> Arg(args, "limit", 100))
    IN  fetch(self, <<url, Some(payload)>>, result)

check_friend(self, args, result) ==
    LET url == BASE_URL \o "/users/check_friend"
        payload == "user_id" :> args["user_id"]
    IN  fetch(self, <<url, Some(payload)>>, result)

fetch_fleet_badges(self, args, result) ==
    fetch(self, <<BASE_URL \o "/fleets/badges">>, result)

fetch_fleet_list(self, args, result) ==
    LET url == BASE_URL \o "/fleets"
        payload == ("epic_id" :> args["epic_id"])
                   @@ ("country_code" :> Arg(args, "country_code", "US"))
                   @@ ("offset" :> Arg(args, "offset", 0))
                   @@ ("limit" :> Arg(args, "limit", 30))
    IN  fetch(self, <<url, Some(payload)>>, result)

\* ', '.join(members) for a list of strings
RECURSIVE Join(_)
Join(members) ==
    IF members = <<>> THEN ""
    ELSE IF Len(members) = 1 THEN members[1]
    ELSE members[1] \o ", " \o Join(Tail(members))

\* the name argument is accepted and never put in the payload
create_fleet(self, args, result) ==
    LET url == BASE_URL \o "/fleets"
        members_string == "0, " \o Join(args["members"])
        payload == ("epic_id" :> args["epic_id"])
                   @@ ("members" :> members_string)
                   @@ ("badge_front" :> args["badge_front"])
                   @@ ("badge_back" :> args["badge_back"])
                   @@ ("privacy" :> Arg(args, "privacy", "public"))
                   @@ ("is_invitable" :> Arg(args, "is_invitable", FALSE))
    IN  request(self, <<url, Some(payload)>>, result)

get_currently_joined_lab(self, args, result) ==
    fetch(self, <<BASE_URL \o "/labs/current", Some(EmptyDict)>>, result)

get_lab_comments(self, args, result) ==
    LET url == BASE_URL \o "/labs/" \o Fmt(args["lab_id"]) \o "/comments"
        payload == ("limit" :> Arg(args, "limit", 30))
                   @@ ("queried_at" :> args["queried_at"])
    IN  fetch(self, <<url, Some(payload)>>, result)

donate_energy_in_lab(self, args, result) ==
    LET url == BASE_URL \o "/labs/" \o Fmt(args["lab_id"]) \o "/donate"
        payload == ("donation" :> args["donation"])
                   @@ ("donation_type" :> Arg(args, "donation_type", "energy"))
                   @@ ("identifier" :> args["identifier"])
                   @@ ("requirement_id" :> args["requirement_id"])
                   @@ ("timestamp" :> args["timestamp"])
    IN  request(self, <<url, Some(payload)>>, result)

\* ------------------------------------------------------ inputs
Ids == {42, 123}
OneId == {42}
Times == {1000}
Texts == {"gamedata"}
Epics == {3}
Hitpoints == {5}
Events == {7}
Energies == {100}
MemberLists == {<<>>, <<"7">>, <<"7", "9">>}

\* the value a caller gives for an optional argument when it gives one
Given == [offset |-> 5, limit |-> 10, order_by |-> "level",
          value_a |-> 10, value_b |-> 20, value_c |-> 30,
          country_code |-> "TW", privacy |-> "private", is_invitable |-> TRUE,
          donation_type |-> "cubes", timezone |-> -5, locale |-> "zh"]

\* the optional arguments a call gives: those of g
Optional(g) == [k \in g |-> Given[k]]

\* response bodies as token sequences: an object, an array, a scalar, and a
\* truncated object
Bodies == {<<"{", "\"x\"", ":", "1", "}">>,
           <<"[", "1", ",", "null", "]">>,
           <<"2">>,
           <<"{", "\"x\"", ":">>}

Responses == {Response(200, b) : b \in Bodies}
             \cup {Response(201, <<"{", "\"x\"", ":", "1", "}">>),
                   Response(404, <<>>)}

\* payload dicts a caller passes to request / fetch itself
PayloadNames == {"empty", "plain", "override", "allreserved", "page"}
CallerPayload(p) ==
    CASE p = "empty" -> EmptyDict
      [] p = "plain" -> "x" :> 1
      [] p = "override" -> ("auth_token" :> "evil") @@ ("x" :> 1)
      [] p = "allreserved" -> ("auth_token" :> "evil") @@ ("client_version" :> "0")
                              @@ ("platform" :> "web") @@ ("timezone" :> 99)
                              @@ ("locale" :> "xx") @@ ("y" :> 2)
      [] OTHER -> ("offset" :> 0) @@ ("limit" :> 30)

Urls == {BASE_URL \o "/fleets/123/comments"}

Threads == {"t1", "t2"}

\* ------------------------------------------------------ sequential calls
NoCall == [name |-> "", args |-> EmptyDict]

Init ==
    /\ \E platform \in {"android", "ios"}, g \in {{}, {"timezone", "locale"}} :
          client = WalkrClient("tokA", "4.9.1", platform, Optional(g))
    /\ call = NoCall
    /\ passed = None
    /\ payloadAfter = None
    /\ wire = <<>>
    /\ resp = NoResponse
    /\ outcome = NoOutcome
    /\ ncalls = 0
    /\ nsent = 0
    /\ cpc = [t \in Threads |-> "idle"]
    /\ ccall = [t \in Threads |-> NoCall]
    /\ cref = [t \in Threads |-> t]
    /\ curl = [t \in Threads |-> ""]
    /\ cmethod = [t \in Threads |-> ""]
    /\ cheap = [t \in Threads |-> EmptyDict]
    /\ cwire = [t \in Threads |-> <<>>]
    /\ cresp = [t \in Threads |-> NoResponse]
    /\ cout = [t \in Threads |-> NoOutcome]

\* one whole call: e is what the called method did
Do(name, args, e) ==
    /\ ncalls < MaxCalls
    /\ call' = [name |-> name, args |-> args]
    /\ client' = e.self
    /\ passed' = e.passed
    /\ payloadAfter' = e.dict
    /\ wire' = e.wire
    /\ resp' = e.resp
    /\ outcome' = e.outcome
    /\ ncalls' = ncalls + 1
    /\ nsent' = nsent + Len(e.wire)
    /\ UNCHANGED concvars

Call_request ==
    \E url \in Urls, r \in Responses :
       \/ Do("request", "url" :> url, request(client, <<url>>, r))
       \/ Do("request", "url" :> url, request(client, <<url, None>>, r))
       \/ \E p \in PayloadNames :
             Do("request", "url" :> url, request(client, <<url, Some(CallerPayload(p))>>, r))

Call_fetch ==
    \E url \in Urls, r \in Responses :
       \/ Do("fetch", "url" :> url, fetch(client, <<url>>, r))
       \/ Do("fetch", "url" :> url, fetch(client, <<url, None>>, r))
       \/ \E p \in PayloadNames :
             Do("fetch", "url" :> url, fetch(client, <<url, Some(CallerPayload(p))>>, r))

Call_make_requests ==
    \E url \in Urls, method \in {"POST", "GET", "PUT"}, r \in Responses :
       \/ Do("_make_requests", ("url" :> url) @@ ("method" :> method),
             make_requests(client, url, None, method, r))
       \/ \E p \in {"plain", "override"} :
             Do("_make_requests", ("url" :> url) @@ ("method" :> method),
                make_requests(client, url, Some(CallerPayload(p)), method, r))

Call_fetch_now ==
    \E r \in Responses, system_time \in Times :
       LET args == ("system_time" :> system_time)
       IN  Do("fetch_now", args, fetch_now(client, args, r))

Call_fetch_shops ==
    \E r \in Responses :
       LET args == EmptyDict
       IN  Do("fetch_shops", args, fetch_shops(client, args, r))

Call_fetch_epics ==
    \E r \in Responses :
       LET args == EmptyDict
       IN  Do("fetch_epics", args, fetch_epics(client, args, r))

Call_update_games ==
    \E r \in Responses, data \in Texts :
       LET args == ("data" :> data)
       IN  Do("update_games", args, update_games(client, args, r))

Call_fetch_friends_count ==
    \E r \in Responses :
       LET args == EmptyDict
       IN  Do("fetch_friends_count", args, fetch_friends_count(client, args, r))

Call_fetch_current_fleet ==
    \E r \in Responses :
       LET args == EmptyDict
       IN  Do("fetch_current_fleet", args, fetch_current_fleet(client, args, r))

Call_fetch_fleet_comments ==
    \E r \in Responses, fleet_id \in Ids, g \in SUBSET {"offset", "limit"} :
       LET args == ("fleet_id" :> fleet_id) @@ Optional(g)
       IN  Do("fetch_fleet_comments", args, fetch_fleet_comments(client, args, r))

Call_fetch_bridge ==
    \E r \in Responses :
       LET args == EmptyDict
       IN  Do("fetch_bridge", args, fetch_bridge(client, args, r))

Call_check_energy ==
    \E r \in Responses, pilot_id \in OneId :
       LET args == ("pilot_id" :> pilot_id)
       IN  Do("check_energy", args, check_energy(client, args, r))

Call_fetch_friends ==
    \E r \in Responses, g \in {{}, {"order_by"}, {"order_by", "offset", "limit"}} :
       LET args == Optional(g)
       IN  Do("fetch_friends", args, fetch_friends(client, args, r))

Call_fetch_friend_invitations ==
    \E r \in Responses :
       LET args == EmptyDict
       IN  Do("fetch_friend_invitations", args, fetch_friend_invitations(client, args, r))

Call_fetch_new_friends_count ==
    \E r \in Responses :
       LET args == EmptyDict
       IN  Do("fetch_new_friends_count", args, fetch_new_friends_count(client, args, r))

Call_fetch_booster ==
    \E r \in Responses :
       LET args == EmptyDict
       IN  Do("fetch_booster", args, fetch_booster(client, args, r))

Call_start_booster ==
    \E r \in Responses :
       LET args == EmptyDict
       IN  Do("start_booster", args, start_booster(client, args, r))

Call_update_booster_information ==
    \E r \in Responses, booster_id \in OneId, data \in Texts :
       LET args == ("booster_id" :> booster_id) @@ ("data" :> data)
       IN  Do("update_booster_information", args, update_booster_information(client, args, r))

Call_convert_energy ==
    \E r \in Responses, converted_energy \in Energies :
       LET args == ("converted_energy" :> converted_energy)
       IN  Do("convert_energy", args, convert_energy(client, args, r))

Call_fetch_pedometer_settings ==
    \E r \in Responses, brand \in {"acme"}, device_model \in {"a1"}, os_version \in {28} :
       LET args == ("brand" :> brand) @@ ("device_model" :> device_model) @@ ("os_version" :> os_version)
       IN  Do("fetch_pedometer_settings", args, fetch_pedometer_settings(client, args, r))

Call_check_reward_for_epic ==
    \E r \in Responses, fleet_id \in OneId :
       LET args == ("fleet_id" :> fleet_id)
       IN  Do("check_reward_for_epic", args, check_reward_for_epic(client, args, r))

Call_donate_energy_for_epic ==
    \E r \in Responses, fleet_id \in Ids, hitpoints \in Hitpoints, event_id \in Events, energy \in Energies :
       LET args == ("fleet_id" :> fleet_id) @@ ("hitpoints" :> hitpoints) @@ ("event_id" :> event_id) @@ ("energy" :> energy)
       IN  Do("donate_energy_for_epic", args, donate_energy_for_epic(client, args, r))

Call_donate_resources_for_epic ==
    \E r \in Responses, fleet_id \in Ids, hitpoints \in Hitpoints, event_id \in Events, g \in SUBSET {"value_a", "value_b", "value_c"} :
       LET args == ("fleet_id" :> fleet_id) @@ ("hitpoints" :> hitpoints) @@ ("event_id" :> event_id) @@ Optional(g)
       IN  Do("donate_resources_for_epic", args, donate_resources_for_epic(client, args, r))

Call_fetch_invite_list ==
    \E r \in Responses, epic_id \in Epics, g \in {{}, {"offset", "limit"}} :
       LET args == ("epic_id" :> epic_id) @@ Optional(g)
       IN  Do("fetch_invite_list", args, fetch_invite_list(client, args, r))

Call_check_friend ==
    \E r \in Responses, user_id \in OneId :
       LET args == ("user_id" :> user_id)
       IN  Do("check_friend", args, check_friend(client, args, r))

Call_fetch_fleet_badges ==
    \E r \in Responses :
       LET args == EmptyDict
       IN  Do("fetch_fleet_badges", args, fetch_fleet_badges(client, args, r))

Call_fetch_fleet_list ==
    \E r \in Responses, epic_id \in Epics, g \in {{}, {"country_code"}, {"country_code", "offset", "limit"}} :
       LET args == ("epic_id" :> epic_id) @@ Optional(g)
       IN  Do("fetch_fleet_list", args, fetch_fleet_list(client, args, r))

Call_create_fleet ==
    \E r \in Responses, members \in MemberLists, badge_front \in {1}, badge_back \in {2}, name \in {"Aces"}, epic_id \in Epics, g \in {{}, {"privacy", "is_invitable"}} :
       LET args == ("members" :> members) @@ ("badge_front" :> badge_front) @@ ("badge_back" :> badge_back) @@ ("name" :> name) @@ ("epic_id" :> epic_id) @@ Optional(g)
       IN  Do("create_fleet", args, create_fleet(client, args, r))

Call_get_currently_joined_lab ==
    \E r \in Responses :
       LET args == EmptyDict
       IN  Do("get_currently_joined_lab", args, get_currently_joined_lab(client, args, r))

Call_get_lab_comments ==
    \E r \in Responses, lab_id \in OneId, queried_at \in Times, g \in SUBSET {"limit"} :
       LET args == ("lab_id" :> lab_id) @@ ("queried_at" :> queried_at) @@ Optional(g)
       IN  Do("get_lab_comments", args, get_lab_comments(client, args, r))

Call_donate_energy_in_lab ==
    \E r \in Responses, lab_id \in OneId, donation \in {50}, identifier \in {"abc"}, requirement_id \in {9}, timestamp \in Times, g \in SUBSET {"donation_type"} :
       LET args == ("lab_id" :> lab_id) @@ ("donation" :> donation) @@ ("identifier" :> identifier) @@ ("requirement_id" :> requirement_id) @@ ("timestamp" :> timestamp) @@ Optional(g)
       IN  Do("donate_energy_in_lab", args, donate_energy_in_lab(client, args, r))

Next ==
    \/ Call_request
    \/ Call_fetch
    \/ Call_make_requests
    \/ Call_fetch_now
    \/ Call_fetch_shops
    \/ Call_fetch_epics
    \/ Call_update_games
    \/ Call_fetch_friends_count
    \/ Call_fetch_current_fleet
    \/ Call_fetch_fleet_comments
    \/ Call_fetch_bridge
    \/ Call_check_energy
    \/ Call_fetch_friends
    \/ Call_fetch_friend_invitations
    \/ Call_fetch_new_friends_count
    \/ Call_fetch_booster
    \/ Call_start_booster
    \/ Call_update_booster_information
    \/ Call_convert_energy
    \/ Call_fetch_pedometer_settings
    \/ Call_check_reward_for_epic
    \/ Call_donate_energy_for_epic
    \/ Call_donate_resources_for_epic
    \/ Call_fetch_invite_list
    \/ Call_check_friend
    \/ Call_fetch_fleet_badges
    \/ Call_fetch_fleet_list
    \/ Call_create_fleet
    \/ Call_get_currently_joined_lab
    \/ Call_get_lab_comments
    \/ Call_donate_energy_in_lab

Spec == Init /\ [][Next]_vars

\* ------------------------------------------------------ concurrent calls
\* Two threads call wrappers on the same client.  A thread runs the wrapper
\* body (its locals: url and a new payload dict), then _make_requests one
\* statement at a time.  cheap holds the dict objects; cref[t] is the object
\* the payload variable of thread t refers to.

\* the mutant hands every call the same dict object
NewDictShared(t) == "t1"

\* a dict display creates a new object, owned by the call that evaluates it
NewDict(t) == t

\* the wrapper body up to the call of request / fetch
Enter(t, name, args, l, method) ==
    /\ cpc[t] = "idle"
    /\ ccall' = [ccall EXCEPT ![t] = [name |-> name, args |-> args]]
    /\ cref' = [cref EXCEPT ![t] = NewDict(t)]
    /\ cheap' = [cheap EXCEPT ![NewDict(t)] = l.payload]
    /\ curl' = [curl EXCEPT ![t] = l.url]
    /\ cmethod' = [cmethod EXCEPT ![t] = method]
    /\ cpc' = [cpc EXCEPT ![t] = "l52"]
    /\ UNCHANGED <<client, cwire, cresp, cout>>
    /\ UNCHANGED seqvars

c_donate_energy_for_epic(t) ==
    \E fleet_id \in Ids, hitpoints \in Hitpoints, event_id \in Events, energy \in Energies :
       LET args == ("fleet_id" :> fleet_id) @@ ("hitpoints" :> hitpoints)
                   @@ ("event_id" :> event_id) @@ ("energy" :> energy)
       IN  Enter(t, "donate_energy_for_epic", args, donate_energy_for_epic_locals(args), "POST")

c_donate_resources_for_epic(t) ==
    \E fleet_id \in Ids, hitpoints \in Hitpoints, event_id \in Events,
       g \in {{}, {"value_a"}, {"value_b", "value_c"}} :
       LET args == ("fleet_id" :> fleet_id) @@ ("hitpoints" :> hitpoints)
                   @@ ("event_id" :> event_id) @@ Optional(g)
       IN  Enter(t, "donate_resources_for_epic", args,
                 donate_resources_for_epic_locals(args), "POST")

c_fetch_fleet_comments(t) ==
    \E fleet_id \in Ids, g \in {{}, {"offset", "limit"}} :
       LET args == ("fleet_id" :> fleet_id) @@ Optional(g)
       IN  Enter(t, "fetch_fleet_comments", args, fetch_fleet_comments_locals(args), "GET")

\* one item assignment of _make_requests on the dict the thread's payload names
Assign(t, at, key, value, next) ==
    /\ cpc[t] = at
    /\ cheap' = [cheap EXCEPT ![cref[t]] = SetItem(@, key, value)]
    /\ cpc' = [cpc EXCEPT ![t] = next]
    /\ UNCHANGED <<client, ccall, cref, curl, cmethod, cwire, cresp, cout>>
    /\ UNCHANGED seqvars

c_l52(t) == Assign(t, "l52", "auth_token", client.auth_token, "l53")
c_l53(t) == Assign(t, "l53", "client_version", client.version, "l54")
c_l54(t) == Assign(t, "l54", "platform", client.platform, "l55")
c_l55(t) == Assign(t, "l55", "timezone", client.tz, "l56")
c_l56(t) == Assign(t, "l56", "locale", client.locale, "l58")

\* lines 58-61: the request goes out with the dict's content at this moment
c_send(t) ==
    /\ cpc[t] = "l58"
    /\ cwire' = [cwire EXCEPT ![t] = Send(client, curl[t], cheap[cref[t]], cmethod[t])]
    /\ cpc' = [cpc EXCEPT ![t] = "l64"]
    /\ UNCHANGED <<client, ccall, cref, curl, cmethod, cheap, cresp, cout>>
    /\ UNCHANGED seqvars

\* lines 64-70: the response arrives and the call returns or raises
c_result(t) ==
    /\ cpc[t] = "l64"
    /\ \E r \in Responses :
          /\ cresp' = [cresp EXCEPT ![t] = r]
          /\ cout' = [cout EXCEPT ![t] = HandleResult(r)]
    /\ cpc' = [cpc EXCEPT ![t] = "done"]
    /\ UNCHANGED <<client, ccall, cref, curl, cmethod, cheap, cwire>>
    /\ UNCHANGED seqvars

\* the caller takes the outcome; the thread is free for its next call
c_next(t) ==
    /\ cpc[t] = "done"
    /\ cpc' = [cpc EXCEPT ![t] = "idle"]
    /\ ccall' = [ccall EXCEPT ![t] = NoCall]
    /\ curl' = [curl EXCEPT ![t] = ""]
    /\ cmethod' = [cmethod EXCEPT ![t] = ""]
    /\ cwire' = [cwire EXCEPT ![t] = <<>>]
    /\ cresp' = [cresp EXCEPT ![t] = NoResponse]
    /\ cout' = [cout EXCEPT ![t] = NoOutcome]
    /\ UNCHANGED <<client, cref, cheap>>
    /\ UNCHANGED seqvars

NextConc ==
    \E t \in Threads :
       \/ c_donate_energy_for_epic(t)
       \/ c_donate_resources_for_epic(t)
       \/ c_fetch_fleet_comments(t)
       \/ c_l52(t)
       \/ c_l53(t)
       \/ c_l54(t)
       \/ c_l55(t)
       \/ c_l56(t)
       \/ c_send(t)
       \/ c_result(t)
       \/ c_next(t)

SpecConc == Init /\ [][NextConc]_vars

\* ------------------------------------------------------ properties
\* the payload dict a request carries, as query parameters or as body
SentDict(q) == IF q.params.some THEN q.params.dict ELSE q.json.dict

\* d is the dict own with the five session fields of the client written over it
MergedFrom(d, own) ==
    /\ DOMAIN d = (DOMAIN own) \cup ReservedKeys
    /\ d["auth_token"] = client.auth_token
    /\ d["client_version"] = client.version
    /\ d["platform"] = client.platform
    /\ d["timezone"] = client.tz
    /\ d["locale"] = client.locale
    /\ \A k \in (DOMAIN own) \ ReservedKeys : d[k] = own[k]

\* C1: every request sent for a payload mapping P carries P's non-reserved
\* keys unchanged, the five reserved keys set to the client's session values
\* (whatever P held for them) and no other key.
Thm_C1 ==
    \A i \in DOMAIN wire : passed.some /\ MergedFrom(SentDict(wire[i]), passed.dict)

\* a request went out for a caller's mapping that held its own auth_token
Wit_C1 ==
    /\ call.name = "fetch"
    /\ Len(wire) = 1
    /\ passed.some
    /\ DOMAIN passed.dict = {"auth_token", "x"}
    /\ passed.dict["auth_token"] = "evil"
    /\ SentDict(wire[1])["auth_token"] = "tokA"

\* C2: a response with a status code other than 200 ends the call with
\* APIError carrying that status code; no value is returned and exactly one
\* request was sent.
Thm_C2 ==
    (resp.received /\ resp.status_code # 200) =>
        /\ outcome.kind = "APIError"
        /\ outcome.status_code = resp.status_code
        /\ Len(wire) = 1

\* the server answered 201 and the call raised
Wit_C2 ==
    /\ resp.received
    /\ resp.status_code = 201
    /\ outcome.kind = "APIError"
    /\ call.name = "update_games"

\* C3: on status 200 with a JSON body the call returns the decoded body,
\* unchanged, and raises nothing.
Thm_C3 ==
    (resp.received /\ resp.status_code = 200 /\ JsonDecode(resp.text).ok) =>
        /\ outcome.kind = "return"
        /\ outcome.value = JsonDecode(resp.text).value
        /\ (resp.text = <<"{", "\"x\"", ":", "1", "}">>
               => outcome.value = JObject("x" :> JNum(1)))
        /\ (resp.text = <<"[", "1", ",", "null", "]">>
               => outcome.value = JArray(<<JNum(1), JNull>>))
        /\ (resp.text = <<"2">> => outcome.value = JNum(2))

\* the server answered 200 with the body {"x": 1} and the call returned
Wit_C3 ==
    /\ resp.received
    /\ resp.status_code = 200
    /\ resp.text = <<"{", "\"x\"", ":", "1", "}">>
    /\ outcome.kind = "return"
    /\ outcome.value.type = "object"

\* C5: a GET carries the merged payload as query parameters and no body, a
\* POST carries it as body and no query parameters; fetch sends GET, request
\* sends POST; fetch_fleet_comments(123) is a GET to
\* BASE_URL/fleets/123/comments with offset=0 and limit=30.
Thm_C5 ==
    /\ \A i \in DOMAIN wire :
          /\ wire[i].method = "GET" =>
                /\ wire[i].params.some /\ ~wire[i].json.some
                /\ wire[i].params.dict = payloadAfter.dict
          /\ wire[i].method = "POST" =>
                /\ wire[i].json.some /\ ~wire[i].params.some
                /\ wire[i].json.dict = payloadAfter.dict
    /\ (call.name = "fetch" /\ wire # <<>>) => wire[1].method = "GET"
    /\ (call.name = "request" /\ wire # <<>>) => wire[1].method = "POST"
    /\ (call.name = "fetch_fleet_comments" /\ DOMAIN call.args = {"fleet_id"}
          /\ call.args["fleet_id"] = 123) =>
          /\ Len(wire) = 1
          /\ wire[1].method = "GET"
          /\ wire[1].url = "https://api.walkrconnect.com/api/v1/fleets/123/comments"
          /\ wire[1].params.some
          /\ wire[1].params.dict["offset"] = 0
          /\ wire[1].params.dict["limit"] = 30

\* fetch_fleet_comments(123) was called and its request went out
Wit_C5 ==
    /\ call.name = "fetch_fleet_comments"
    /\ DOMAIN call.args = {"fleet_id"}
    /\ call.args["fleet_id"] = 123
    /\ Len(wire) = 1
    /\ wire[1].params.some

\* C6: donate_resources_for_epic sends a POST to
\* BASE_URL/fleets/<fleet_id>/donate whose payload has event_status "event",
\* event_type "currency", the given event_id and hitpoints, and value_a,
\* value_b, value_c as given or 0 when omitted.
Thm_C6 ==
    call.name = "donate_resources_for_epic" =>
        /\ Len(wire) = 1
        /\ wire[1].method = "POST"
        /\ (call.args["fleet_id"] = 123
              => wire[1].url = "https://api.walkrconnect.com/api/v1/fleets/123/donate")
        /\ wire[1].json.some
        /\ LET d == wire[1].json.dict
               a == call.args
           IN  /\ d["event_status"] = "event"
               /\ d["event_type"] = "currency"
               /\ d["event_id"] = a["event_id"]
               /\ d["hitpoints"] = a["hitpoints"]
               /\ d["value_a"] = (IF "value_a" \in DOMAIN a THEN a["value_a"] ELSE 0)
               /\ d["value_b"] = (IF "value_b" \in DOMAIN a THEN a["value_b"] ELSE 0)
               /\ d["value_c"] = (IF "value_c" \in DOMAIN a THEN a["value_c"] ELSE 0)
               /\ (/\ DOMAIN a = {"fleet_id", "hitpoints", "event_id", "value_a"}
                   /\ a["fleet_id"] = 42 /\ a["hitpoints"] = 5
                   /\ a["event_id"] = 7 /\ a["value_a"] = 10)
                  => /\ wire[1].url = "https://api.walkrconnect.com/api/v1/fleets/42/donate"
                     /\ d["value_a"] = 10 /\ d["value_b"] = 0 /\ d["value_c"] = 0

\* donate_resources_for_epic(fleet_id=42, hitpoints=5, event_id=7, value_a=10)
Wit_C6 ==
    /\ call.name = "donate_resources_for_epic"
    /\ DOMAIN call.args = {"fleet_id", "hitpoints", "event_id", "value_a"}
    /\ call.args["fleet_id"] = 42
    /\ call.args["value_a"] = 10
    /\ Len(wire) = 1
    /\ wire[1].json.dict["value_b"] = 0

\* the URL and payload the call c built from its own arguments
OwnLocals(c) ==
    CASE c.name = "donate_energy_for_epic" -> donate_energy_for_epic_locals(c.args)
      [] c.name = "donate_resources_for_epic" -> donate_resources_for_epic_locals(c.args)
      [] OTHER -> fetch_fleet_comments_locals(c.args)

\* C7: with two calls running concurrently on one client, every request sent
\* carries the URL and exactly the payload its own call built plus the
\* session fields, under every interleaving.
Thm_C7 ==
    \A t \in Threads :
       cwire[t] # <<>> =>
          /\ Len(cwire[t]) = 1
          /\ cwire[t][1].url = OwnLocals(ccall[t]).url
          /\ MergedFrom(SentDict(cwire[t][1]), OwnLocals(ccall[t]).payload)

\* both threads have a request out at the same time, for different wrappers
Wit_C7 ==
    /\ cpc["t1"] = "l64"
    /\ cpc["t2"] = "l64"
    /\ ccall["t1"].name = "donate_energy_for_epic"
    /\ ccall["t2"].name = "donate_resources_for_epic"
    /\ cwire["t1"] # <<>>
    /\ cwire["t2"] # <<>>

\* C10: after request / fetch returns or raises APIError the caller's mapping
\* holds the five reserved keys set to the session values and its other keys
\* unchanged, and no call changes the client's auth_token, version, platform,
\* tz, locale or headers.
Thm_C10 ==
    /\ []((call.name \in {"request", "fetch"} /\ passed.some
              /\ outcome.kind \in {"return", "APIError"})
            => (payloadAfter.some /\ MergedFrom(payloadAfter.dict, passed.dict)))
    /\ [][client' = client]_vars

\* request raised APIError for a caller's mapping that held all reserved keys
Wit_C10 ==
    /\ call.name = "request"
    /\ outcome.kind = "APIError"
    /\ passed.some
    /\ ReservedKeys \subseteq DOMAIN passed.dict
    /\ payloadAfter.dict["timezone"] = client.tz
    /\ payloadAfter.dict["y"] = 2

\* C4 as stated: every call of request, fetch or a wrapper sends exactly one
\* request, so the requests sent so far number the calls made so far.
Claim_C4 ==
    (ncalls > 0 /\ call.name # "_make_requests") => (Len(wire) = 1 /\ nsent = ncalls)

\* C8 as stated: update_booster_information sends one PUT to
\* BASE_URL/boosts/<booster_id> with body {data} plus the session fields and
\* returns the decoded body on status 200.
Claim_C8 ==
    call.name = "update_booster_information" =>
        /\ Len(wire) = 1
        /\ wire[1].method = "PUT"
        /\ (call.args["booster_id"] = 42
              => wire[1].url = "https://api.walkrconnect.com/api/v1/boosts/42")
        /\ wire[1].json.some
        /\ MergedFrom(wire[1].json.dict, "data" :> call.args["data"])
        /\ (resp.status_code = 200 /\ JsonDecode(resp.text).ok)
              => outcome = Return(JsonDecode(resp.text).value)

\* C9 without the fleet name: what create_fleet does put in its request
CreateFleetRest ==
    call.name = "create_fleet" =>
        /\ Len(wire) = 1
        /\ wire[1].method = "POST"
        /\ wire[1].url = "https://api.walkrconnect.com/api/v1/fleets"
        /\ wire[1].json.some
        /\ LET d == wire[1].json.dict
               a == call.args
           IN  /\ d["epic_id"] = a["epic_id"]
               /\ d["badge_front"] = a["badge_front"]
               /\ d["badge_back"] = a["badge_back"]
               /\ d["privacy"] = (IF "privacy" \in DOMAIN a THEN a["privacy"] ELSE "public")
               /\ d["is_invitable"] =
                     (IF "is_invitable" \in DOMAIN a THEN a["is_invitable"] ELSE FALSE)
               /\ (a["members"] = <<>> => d["members"] = "0, ")
               /\ (a["members"] = <<"7">> => d["members"] = "0, 7")
               /\ (a["members"] = <<"7", "9">> => d["members"] = "0, 7, 9")

\* C9 as stated: the payload of create_fleet carries every argument given,
\* the fleet name included.
Claim_C9 ==
    call.name = "create_fleet" =>
        /\ CreateFleetRest
        /\ "name" \in DOMAIN wire[1].json.dict
        /\ wire[1].json.dict["name"] = call.args["name"]

====
